---------------------------- MODULE Spec2Model ----------------------------
(***************************************************************************)
(* A model of pyvmg.py (Python 2): the converter of Nokia .vmg message     *)
(* files to one XML, CSV or text file.                                     *)
(*                                                                         *)
(* A Python string is a sequence of one-character strings, so that         *)
(* searching, replacing, slicing and formatting are computed character by  *)
(* character as the interpreter computes them.  A dictionary is a function *)
(* whose DOMAIN is the set of its keys: a key that was never assigned is   *)
(* not in the DOMAIN, and reading it is a KeyError.                         *)
(***************************************************************************)
EXTENDS Integers, Sequences, FiniteSets, TLC

VARIABLES
    pc,         \* the position of the program
    xmldata,    \* escapexml's argument
    escaped,    \* escapexml's return value
    text,       \* the content of the file the reader is given
    message,    \* VMGReader.message
    groups,     \* the three match objects of VMGReader.process
    data,       \* the dictionary VMGReader.process returns
    args,       \* main's positional arguments
    format,     \* options.format
    tofile,     \* whether options.filename is given
    filenames,  \* main's filenames list
    i,          \* the index of the loop in progress
    messages,   \* Writer.messages
    out,        \* what has been written to the output stream
    exc         \* the exception raised and where, NoExc when none

vars == <<pc, xmldata, escaped, text, message, groups, data, args, format,
          tofile, filenames, i, messages, out, exc>>

---------------------------------------------------------------------------
(* Strings *)

NUL == "\\0"
LF == "\n"
CR == "\r"
QUOT == "\""

Digit == {"0", "1", "2", "3", "4", "5", "6", "7", "8", "9"}

DigitVal(c) ==
    CASE c = "0" -> 0 [] c = "1" -> 1 [] c = "2" -> 2 [] c = "3" -> 3
      [] c = "4" -> 4 [] c = "5" -> 5 [] c = "6" -> 6 [] c = "7" -> 7
      [] c = "8" -> 8 [] c = "9" -> 9

DigitChar(n) ==
    CASE n = 0 -> "0" [] n = 1 -> "1" [] n = 2 -> "2" [] n = 3 -> "3"
      [] n = 4 -> "4" [] n = 5 -> "5" [] n = 6 -> "6" [] n = 7 -> "7"
      [] n = 8 -> "8" [] n = 9 -> "9"

\* s[a..b], 1-based and inclusive; empty when a > b
Slice(s, a, b) == IF a > b THEN <<>> ELSE SubSeq(s, a, b)

\* whether the literal lit stands in s at position p
LitAt(s, lit, p) ==
    /\ p >= 1
    /\ p + Len(lit) - 1 <= Len(s)
    /\ \A k \in 1..Len(lit) : s[p + k - 1] = lit[k]

\* str.replace(old, new) for a one-character old: every occurrence, left to right
RECURSIVE replace(_, _, _)
replace(s, old, new) ==
    IF s = <<>> THEN <<>>
    ELSE (IF Head(s) = old THEN new ELSE <<Head(s)>>) \o replace(Tail(s), old, new)

RECURSIVE Concat(_)
Concat(ss) == IF ss = <<>> THEN <<>> ELSE Head(ss) \o Concat(Tail(ss))

---------------------------------------------------------------------------
(* escapexml *)

AMP == <<"&", "a", "m", "p", ";">>
LT == <<"&", "l", "t", ";">>
GT == <<"&", "g", "t", ";">>
QUOTE == <<"&", "q", "u", "o", "t", ";">>

\* a slip in the order: & replaced last, after the entities were introduced
escapexml_amp_last(s) ==
    replace(replace(replace(replace(s, "<", LT), ">", GT), QUOT, QUOTE), "&", AMP)

escapexml(s) ==
    LET s1 == replace(s, "&", AMP)
        s2 == replace(s1, "<", LT)
        s3 == replace(s2, ">", GT)
    IN  replace(s3, QUOT, QUOTE)

---------------------------------------------------------------------------
(* The three regular expressions of VMGReader.__init__, matched as re.search
   matches them: the leftmost position at which the pattern matches, a greedy
   repetition taking as much as lets the rest of the pattern match. *)

TEL == <<"T", "E", "L", ":">>
XNOKDT == <<"X", "-", "N", "O", "K", "-", "D", "T", ":">>
DATE == <<"D", "a", "t", "e", ":">>
ENDVBODY == <<"E", "N", "D", ":", "V", "B", "O", "D", "Y">>

\* [\dTZ] and [\d.: ]
StampClass == Digit \cup {"T", "Z"}
DateLineClass == Digit \cup {".", ":", " "}

\* the last index of the longest run of characters of class C that starts at p;
\* p - 1 when s[p] is not in C
RECURSIVE RunEnd(_, _, _)
RunEnd(s, p, C) ==
    IF p <= Len(s) /\ s[p] \in C THEN RunEnd(s, p + 1, C) ELSE p - 1

NoMatch == [ok |-> FALSE, start |-> 0, gs |-> 0, ge |-> 0, g1 |-> <<>>]
Match(s, p, gs, ge) ==
    [ok |-> TRUE, start |-> p, gs |-> gs, ge |-> ge, g1 |-> Slice(s, gs, ge)]

\* a slip: \d+ taken lazily, one digit only
telre_at_lazy(s, p) ==
    IF ~LitAt(s, TEL, p) THEN NoMatch
    ELSE LET q == p + Len(TEL)
             d == IF q <= Len(s) /\ s[q] = "+" THEN q + 1 ELSE q
             e == RunEnd(s, d, Digit)
         IN  IF e >= d THEN Match(s, p, q, d) ELSE NoMatch

\* TEL:(\+?\d+) tried at position p
telre_at(s, p) ==
    IF ~LitAt(s, TEL, p) THEN NoMatch
    ELSE LET q == p + Len(TEL)
             d == IF q <= Len(s) /\ s[q] = "+" THEN q + 1 ELSE q
             e == RunEnd(s, d, Digit)
         IN  IF e >= d THEN Match(s, p, q, e) ELSE NoMatch

RECURSIVE telre_scan(_, _)
telre_scan(s, p) ==
    IF p > Len(s) THEN NoMatch
    ELSE IF telre_at(s, p).ok THEN telre_at(s, p) ELSE telre_scan(s, p + 1)

telre_search(s) == telre_scan(s, 1)

\* X-NOK-DT:([\dTZ]+) tried at position p
datere_at(s, p) ==
    IF ~LitAt(s, XNOKDT, p) THEN NoMatch
    ELSE LET q == p + Len(XNOKDT)
             e == RunEnd(s, q, StampClass)
         IN  IF e >= q THEN Match(s, p, q, e) ELSE NoMatch

RECURSIVE datere_scan(_, _)
datere_scan(s, p) ==
    IF p > Len(s) THEN NoMatch
    ELSE IF datere_at(s, p).ok THEN datere_at(s, p) ELSE datere_scan(s, p + 1)

datere_search(s) == datere_scan(s, 1)

\* (.*)END:VBODY with DOTALL, the group starting at g: .* first takes everything
\* to the end of the text and gives back one character at a time until
\* END:VBODY follows; e is the end of the group being tried, -1 when none works
RECURSIVE greedy_end(_, _, _)
greedy_end(s, g, e) ==
    IF e < g - 1 THEN -1
    ELSE IF LitAt(s, ENDVBODY, e + 1) THEN e
    ELSE greedy_end(s, g, e - 1)

\* a slip: (.*?) in place of (.*), the group ending at the first END:VBODY
RECURSIVE lazy_end(_, _, _)
lazy_end(s, g, e) ==
    IF e > Len(s) THEN -1
    ELSE IF LitAt(s, ENDVBODY, e + 1) THEN e
    ELSE lazy_end(s, g, e + 1)

body_end_lazy(s, g) == lazy_end(s, g, g - 1)

body_end(s, g) == greedy_end(s, g, Len(s))

\* Date:[\d.: ]+\n(.*)END:VBODY tried at position p.  [\d.: ]+ can only stop at
\* the end of its run: a shorter run is followed by a character of the class,
\* never by the newline.
bodyre_at(s, p) ==
    IF ~LitAt(s, DATE, p) THEN NoMatch
    ELSE LET q == p + Len(DATE)
             r == RunEnd(s, q, DateLineClass)
         IN  IF r >= q /\ r + 1 <= Len(s) /\ s[r + 1] = LF
             THEN LET g == r + 2
                      e == body_end(s, g)
                  IN  IF e = -1 THEN NoMatch ELSE Match(s, p, g, e)
             ELSE NoMatch

RECURSIVE bodyre_scan(_, _)
bodyre_scan(s, p) ==
    IF p > Len(s) THEN NoMatch
    ELSE IF bodyre_at(s, p).ok THEN bodyre_at(s, p) ELSE bodyre_scan(s, p + 1)

bodyre_search(s) == bodyre_scan(s, 1)

---------------------------------------------------------------------------
(* datetime: a datetime is <<year, month, day, hour, minute, second>> *)

\* datetime.datetime(1970, 1, 1, 0, 0)
Epoch == <<1970, 1, 1, 0, 0, 0>>

IsLeap(y) == (y % 4 = 0) /\ ((y % 100 # 0) \/ (y % 400 = 0))

DaysIn(y, m) ==
    IF m = 2 THEN (IF IsLeap(y) THEN 29 ELSE 28)
    ELSE IF m \in {4, 6, 9, 11} THEN 30 ELSE 31

\* the number the digits s[a..b] spell
RECURSIVE Num(_, _, _)
Num(s, a, b) == IF a > b THEN 0 ELSE 10 * Num(s, a, b - 1) + DigitVal(s[b])

AllDigits(s, a, b) == b <= Len(s) /\ \A k \in a..b : s[k] \in Digit

\* Whether a directive of strptime matches s[a..a+w-1], w being 1 or 2 (_strptime.py):
\*   %m 1[0-2]|0[1-9]|[1-9]    %d 3[01]|[12]\d|0[1-9]|[1-9]| [1-9]
\*   %H 2[0-3]|[0-1]\d|\d      %M [0-5]\d|\d      %S 6[0-1]|[0-5]\d|\d
\* (the stamp holds no space, so the last alternative of %d never applies)
FieldOk(f, s, a, w) ==
    /\ AllDigits(s, a, a + w - 1)
    /\ LET n == Num(s, a, a + w - 1)
       IN  IF w = 1 THEN (f \in {"m", "d"} => n >= 1)
           ELSE CASE f = "m" -> n >= 1 /\ n <= 12
                  [] f = "d" -> n >= 1 /\ n <= 31
                  [] f = "H" -> n <= 23
                  [] f = "M" -> n <= 59
                  [] f = "S" -> n <= 61

Widths == [m : {1, 2}, d : {1, 2}, H : {1, 2}, M : {1, 2}, S : {1, 2}]

\* where each field starts under the widths w; T stands between %d and %H
StartM == 5
StartD(w) == StartM + w.m
StartH(w) == StartD(w) + w.d + 1
StartMin(w) == StartH(w) + w.H
StartS(w) == StartMin(w) + w.M

\* %Y%m%dT%H%M%SZ matches the whole of s with the field widths w
StampMatches(s, w) ==
    /\ AllDigits(s, 1, 4)
    /\ FieldOk("m", s, StartM, w.m)
    /\ FieldOk("d", s, StartD(w), w.d)
    /\ StartH(w) - 1 <= Len(s) /\ s[StartH(w) - 1] = "T"
    /\ FieldOk("H", s, StartH(w), w.H)
    /\ FieldOk("M", s, StartMin(w), w.M)
    /\ FieldOk("S", s, StartS(w), w.S)
    /\ Len(s) = StartS(w) + w.S /\ s[Len(s)] = "Z"

\* the alternatives of a directive are tried two digits first, the directives
\* left to right: w comes before v in the order of the backtracking
Before(w, v) ==
    LET ws == <<w.m, w.d, w.H, w.M, w.S>>
        vs == <<v.m, v.d, v.H, v.M, v.S>>
    IN  \E k \in 1..5 : ws[k] > vs[k] /\ \A j \in 1..(k - 1) : ws[j] = vs[j]

ValueError == [ok |-> FALSE, dt |-> <<>>]

\* datetime.datetime.strptime(s, '%Y%m%dT%H%M%SZ'): the first match of the
\* format's regular expression, which must leave no character unconverted (it
\* ends at Z, the stamp's only Z position a match can end at), then the
\* datetime built of the fields, which rejects a year 0, a day the month does
\* not have and a second above 59.
strptime(s) ==
    LET ms == {w \in Widths : StampMatches(s, w)}
    IN  IF ms = {} THEN ValueError
        ELSE LET w == CHOOSE x \in ms : \A v \in ms \ {x} : Before(x, v)
                 y == Num(s, 1, 4)
                 mo == Num(s, StartM, StartM + w.m - 1)
                 d == Num(s, StartD(w), StartD(w) + w.d - 1)
                 h == Num(s, StartH(w), StartH(w) + w.H - 1)
                 mi == Num(s, StartMin(w), StartMin(w) + w.M - 1)
                 se == Num(s, StartS(w), StartS(w) + w.S - 1)
             IN  IF y >= 1 /\ d <= DaysIn(y, mo) /\ se <= 59
                 THEN [ok |-> TRUE, dt |-> <<y, mo, d, h, mi, se>>]
                 ELSE ValueError

\* x < y on datetimes
DateLess(x, y) ==
    \E k \in 1..6 : x[k] < y[k] /\ \A j \in 1..(k - 1) : x[j] = y[j]

\* n in decimal, zero-padded to w digits
RECURSIVE Pad(_, _)
Pad(n, w) == IF w = 0 THEN <<>> ELSE Pad(n \div 10, w - 1) \o <<DigitChar(n % 10)>>

\* dt.strftime('%Y-%m-%d %H:%M:%S').  Python 2 refuses a year before 1900
\* with a ValueError.
strftime(dt) ==
    IF dt[1] < 1900 THEN [ok |-> FALSE, s |-> <<>>]
    ELSE [ok |-> TRUE,
          s |-> Pad(dt[1], 4) \o <<"-">> \o Pad(dt[2], 2) \o <<"-">> \o Pad(dt[3], 2)
                \o <<" ">> \o Pad(dt[4], 2) \o <<":">> \o Pad(dt[5], 2)
                \o <<":">> \o Pad(dt[6], 2)]

---------------------------------------------------------------------------
(* VMGReader *)

\* a slip: the NUL characters are left in the text
read_keep_nul(content) == content

\* VMGReader.read: the content of the file with every NUL removed
read(content) == replace(content, NUL, <<>>)

\* s[:-1]
DropLast(s) == Slice(s, 1, Len(s) - 1)

\* the dictionary VMGReader.process builds from its three matches: 'date' is
\* assigned only inside `if datematch:`
record(telmatch, datematch, bodymatch) ==
    LET telno == IF telmatch.ok THEN telmatch.g1 ELSE <<>>
        parsed == strptime(datematch.g1)
        body == IF bodymatch.ok THEN DropLast(escapexml(bodymatch.g1)) ELSE <<>>
        d0 == ("telno" :> telno) @@ ("body" :> body)
    IN  IF datematch.ok
        THEN d0 @@ ("date" :> (IF parsed.ok THEN parsed.dt ELSE Epoch))
        ELSE d0

search(s) ==
    [tel |-> telre_search(s), date |-> datere_search(s), body |-> bodyre_search(s)]

\* VMGReader.process
process(s) == record(telre_search(s), datere_search(s), bodyre_search(s))

\* no exception: <<the exception, the place that raised it>>
NoExc == <<"", "">>

NoGroups == [tel |-> NoMatch, date |-> NoMatch, body |-> NoMatch]
NoData == <<>>

---------------------------------------------------------------------------
(* The reader alone: read() then process() on one file of any content *)

\* the greatest number of pieces of a text made of HeaderPieces, of BodyPieces
MaxPieces == 3
MaxBodyPieces == 4

TELNO == <<"+", "1", "5", "5", "5", "1", "2", "3", "4", "5", "6", "7">>
TELLIT == TEL \o TELNO
STAMP == <<"2", "0", "0", "8", "0", "5", "2", "6", "T", "1", "2", "4", "2", "3", "2", "Z">>
SHORTSTAMP == <<"2", "0", "0", "8", "5", "2", "6", "T", "1", "2", "4", "2", "3", "2", "Z">>
BADSTAMP == <<"2", "0", "0", "8", "1", "3", "2", "6", "T", "1", "2", "4", "2", "3", "2", "Z">>
DATELINE == DATE \o <<"1", LF>>

\* the pieces of the texts about the three markers: the markers whole, the
\* markers cut by a NUL, and single characters that extend or separate them
HeaderPieces ==
    { TELLIT, TEL, <<"1">>, <<"+">>, XNOKDT, STAMP, SHORTSTAMP, BADSTAMP, <<NUL>>,
      <<"T", "E", NUL, "L", ":">>, DATELINE, ENDVBODY }

\* the pieces of the texts about the body
BodyPieces ==
    { DATELINE, DATE, ENDVBODY, <<"&">>, <<"a">>, <<LF>>,
      <<"E", "N", "D", NUL, ":", "V", "B", "O", "D", "Y">> }

TextsOf(P, n) == {Concat(ps) : ps \in UNION {[1..k -> P] : k \in 0..n}}

Texts == TextsOf(HeaderPieces, MaxPieces) \cup TextsOf(BodyPieces, MaxBodyPieces)

InitReader ==
    /\ pc = "read"
    /\ text \in Texts
    /\ xmldata = <<>> /\ escaped = <<>>
    /\ message = <<>> /\ groups = NoGroups /\ data = NoData
    /\ args = <<>> /\ format = "xml" /\ tofile = FALSE /\ filenames = <<>>
    /\ i = 0 /\ messages = <<>> /\ out = <<>> /\ exc = NoExc

\* reader.read(f)
Read ==
    /\ pc = "read"
    /\ message' = read(text)
    /\ pc' = "process"
    /\ UNCHANGED <<xmldata, escaped, text, groups, data, args, format, tofile,
                   filenames, i, messages, out, exc>>

\* reader.process()
Process ==
    /\ pc = "process"
    /\ groups' = search(message)
    /\ data' = record(groups'.tel, groups'.date, groups'.body)
    /\ pc' = "processed"
    /\ UNCHANGED <<xmldata, escaped, text, message, args, format, tofile,
                   filenames, i, messages, out, exc>>

NextReader == Read \/ Process

SpecReader == InitReader /\ [][NextReader]_vars

---------------------------------------------------------------------------
(* Claims about the reader, checked under SpecReader *)

Processed == pc = "processed"

Fields == {"telno", "date", "body"}

Occurs(s, lit) == \E p \in 1..Len(s) : LitAt(s, lit, p)

\* C1: for every input text VMGReader.process returns a record with the three
\* fields telno, date and body, and when the text holds no X-NOK-DT match, or a
\* match that strptime rejects, the record's date is 1970-01-01 00:00:00.
C1_RecordCompleteEpochDefault ==
    Processed =>
        /\ DOMAIN data = Fields
        /\ (~groups.date.ok \/ ~strptime(groups.date.g1).ok) => data.date = Epoch

\* C4: when the body pattern matches, the stored body is the escaping of the
\* captured content without its last character, escapexml(captured[:-1]).
C4_BodyEscapedAfterTrim ==
    (Processed /\ groups.body.ok) =>
        data.body = escapexml(DropLast(groups.body.g1))

\* the positions at which TEL:+15551234567 stands in s
TelLitAt(s) == {p \in 1..Len(s) : LitAt(s, TELLIT, p)}

\* TEL:(\+?\d+) can match at q: TEL:, then a digit or + and a digit
TelStartsAt(s, q) ==
    /\ LitAt(s, TEL, q)
    /\ \/ q + 4 <= Len(s) /\ s[q + 4] \in Digit
       \/ q + 5 <= Len(s) /\ s[q + 4] = "+" /\ s[q + 5] \in Digit

\* C7 as stated: every text containing TEL:+15551234567 yields telno
\* +15551234567 whatever precedes or follows it, and every text without TEL:
\* yields the empty telno.
C7_TelLiteralAnywhere ==
    Processed =>
        /\ TelLitAt(message) # {} => data.telno = TELNO
        /\ ~Occurs(message, TEL) => data.telno = <<>>

\* C7 amended: a text in which TEL:+15551234567 stands with no digit right
\* after it and no earlier place where TEL: is followed by a digit or by + and
\* a digit yields telno +15551234567; a text without TEL: yields the empty telno.
C7_TelFirstMatchWhole ==
    Processed =>
        /\ \A p \in TelLitAt(message) :
              ( /\ ~(p + Len(TELLIT) <= Len(message) /\ message[p + Len(TELLIT)] \in Digit)
                /\ \A q \in 1..(p - 1) : ~TelStartsAt(message, q) )
              => data.telno = TELNO
        /\ ~Occurs(message, TEL) => data.telno = <<>>

C7_Witness ==
    /\ Processed
    /\ \E p \in TelLitAt(message) : p > 1 /\ p + Len(TELLIT) <= Len(message)
    /\ data.telno = TELNO

\* the text without its NUL characters
NoNul(s) == SelectSeq(s, LAMBDA c : c # NUL)

\* C9: two file contents that differ only in NUL characters yield the same
\* record, the one of the content without any NUL, so that a marker cut by a
\* NUL is recognised; and no field of the record holds a NUL.
C9_NulStrippedFirst ==
    Processed =>
        /\ data = process(NoNul(text))
        /\ \A k \in 1..Len(data.telno) : data.telno[k] # NUL
        /\ \A k \in 1..Len(data.body) : data.body[k] # NUL

C9_Witness ==
    /\ Processed
    /\ ~Occurs(text, TEL) /\ data.telno # <<>>
    /\ NoNul(text) # text

Max(S) == CHOOSE x \in S : \A y \in S : y <= x
Min(S) == CHOOSE x \in S : \A y \in S : x <= y

\* the first position after a line Date:[\d.: ]+\n that starts at p; 0 when
\* no such line starts there
AfterDateLine(s, p) ==
    IF /\ LitAt(s, DATE, p)
       /\ \E e \in (p + Len(DATE) + 1)..Len(s) :
              /\ s[e] = LF
              /\ \A k \in (p + Len(DATE))..(e - 1) : s[k] \in DateLineClass
    THEN 1 + Min({e \in (p + Len(DATE) + 1)..Len(s) : s[e] = LF})
    ELSE 0

\* the positions of the END:VBODY markers of s from position g on
MarkersFrom(s, g) == {p \in g..Len(s) : LitAt(s, ENDVBODY, p)}

\* the starts of the Date: lines of s that have an END:VBODY after them
MatchingLines(s) ==
    {p \in 1..Len(s) : AfterDateLine(s, p) > 0 /\ MarkersFrom(s, AfterDateLine(s, p)) # {}}

\* where the character s[m] of a capture starting at g stands in its escaping
EscapedAt(s, g, m) == Len(escapexml(Slice(s, g, m - 1))) + 1

\* the capture runs from g to the last of the markers: it is the group of the
\* match, and every earlier marker that does not end it stands in the body
CaptureGreedy(s, g, marks, last) ==
    /\ groups.body.g1 = Slice(s, g, last - 1)
    /\ data.body = DropLast(escapexml(Slice(s, g, last - 1)))
    /\ \A m \in marks \ {last} :
           /\ LitAt(groups.body.g1, ENDVBODY, m - g + 1)
           /\ m + Len(ENDVBODY) < last => LitAt(data.body, ENDVBODY, EscapedAt(s, g, m))
    /\ (Len(groups.body.g1) = Min(marks) - g) <=> (Cardinality(marks) = 1)

\* the capture runs to the last marker and every earlier marker stands in the body
EarlierInBody(s, g, marks, last) ==
    /\ groups.body.g1 = Slice(s, g, last - 1)
    /\ \A m \in marks \ {last} : LitAt(data.body, ENDVBODY, EscapedAt(s, g, m))

\* C10 as stated: the capture runs from the end of the first matching Date: line
\* to the last END:VBODY of the text, and every earlier END:VBODY is part of
\* the stored body.
C10_EarlierMarkersInBody ==
    (Processed /\ MatchingLines(message) # {}) =>
        EarlierInBody(message, AfterDateLine(message, Min(MatchingLines(message))),
                      MarkersFrom(message, AfterDateLine(message, Min(MatchingLines(message)))),
                      Max(MarkersFrom(message, 1)))

\* C10 amended: the body capture is greedy: it runs from the end of the first
\* Date: line that has an END:VBODY after it to the last END:VBODY of the text,
\* so every earlier END:VBODY is part of the captured content; the stored body
\* is the escaped capture without its last character, and holds every earlier
\* END:VBODY that does not end the capture.  The capture ends at the first
\* END:VBODY exactly when that is the only one after the line.
C10_BodyCaptureGreedy ==
    Processed =>
        /\ groups.body.ok <=> MatchingLines(message) # {}
        /\ MatchingLines(message) # {} =>
             CaptureGreedy(message, AfterDateLine(message, Min(MatchingLines(message))),
                           MarkersFrom(message, AfterDateLine(message, Min(MatchingLines(message)))),
                           Max(MarkersFrom(message, 1)))

C10_Witness ==
    /\ Processed /\ groups.body.ok
    /\ Cardinality(MarkersFrom(message, groups.body.gs)) >= 2
    /\ Occurs(data.body, ENDVBODY)

---------------------------------------------------------------------------
(* escapexml alone, on every string of EscChars up to MaxEscLen characters *)

MaxEscLen == 4

EscChars == {"&", "<", ">", QUOT, "a", ";"}

InitEscape ==
    /\ pc = "escape"
    /\ xmldata \in UNION {[1..n -> EscChars] : n \in 0..MaxEscLen}
    /\ escaped = <<>>
    /\ text = <<>> /\ message = <<>> /\ groups = NoGroups /\ data = NoData
    /\ args = <<>> /\ format = "xml" /\ tofile = FALSE /\ filenames = <<>>
    /\ i = 0 /\ messages = <<>> /\ out = <<>> /\ exc = NoExc

Escape ==
    /\ pc = "escape"
    /\ escaped' = escapexml(xmldata)
    /\ pc' = "escaped"
    /\ UNCHANGED <<xmldata, text, message, groups, data, args, format, tofile,
                   filenames, i, messages, out, exc>>

NextEscape == Escape

SpecEscape == InitEscape /\ [][NextEscape]_vars

\* what one character becomes when each reserved character is replaced once
Entity(c) ==
    CASE c = "&" -> AMP [] c = "<" -> LT [] c = ">" -> GT [] c = QUOT -> QUOTE
      [] OTHER -> <<c>>

SinglePass(s) == Concat([k \in 1..Len(s) |-> Entity(s[k])])

\* C8: for every string s, escapexml(s), four replacements of the whole string
\* in the order & < > ", is the substitution of s character by character: no &
\* that a later replacement introduces is escaped again, and the result holds
\* no raw <, > or ".
C8_EscapeIsSinglePass ==
    pc = "escaped" =>
        /\ escaped = SinglePass(xmldata)
        /\ \A k \in 1..Len(escaped) : escaped[k] \notin {"<", ">", QUOT}

C8_Witness ==
    /\ pc = "escaped"
    /\ \E a, b, c \in 1..Len(xmldata) :
           a < b /\ b < c /\ xmldata[a] = "<" /\ xmldata[b] = "&" /\ xmldata[c] = ">"
    /\ escaped # xmldata

---------------------------------------------------------------------------
(* Writer.process: the sort *)

HasDate(x) == "date" \in DOMAIN x

\* a slip: equal dates compared as smaller, which makes the sort reverse ties
datecmp_tie_less(x, y) ==
    IF DateLess(y.date, x.date) THEN 1 ELSE -1

\* datecmp, for two records that have a date
datecmp(x, y) ==
    IF DateLess(x.date, y.date) THEN -1
    ELSE IF x.date = y.date THEN 0
    ELSE 1

\* x['date'] or y['date'] raises KeyError
datecmp_raises(x, y) == ~HasDate(x) \/ ~HasDate(y)

\* list.sort(cmp) on a short list is a binary insertion sort: each element in
\* turn goes into the sorted part before it, after every element it does not
\* compare smaller than
RECURSIVE insert(_, _)
insert(sorted, x) ==
    IF sorted = <<>> THEN <<x>>
    ELSE IF datecmp(x, Head(sorted)) < 0 THEN <<x>> \o sorted
    ELSE <<Head(sorted)>> \o insert(Tail(sorted), x)

RECURSIVE sort(_)
sort(ms) == IF ms = <<>> THEN <<>> ELSE insert(sort(DropLast(ms)), ms[Len(ms)])

\* with two or more elements every element is compared at least once
sort_raises(ms) ==
    Len(ms) >= 2 /\ \E a, b \in 1..Len(ms) : a # b /\ datecmp_raises(ms[a], ms[b])

---------------------------------------------------------------------------
(* The writers.  What write() yields: the characters written and the
   exception that stopped it, NoExc when it returned. *)

XML_OPEN == <<"<", "m", "e", "s", "s", "a", "g", "e", "s", ">">>
XML_CLOSE == <<"<", "/", "m", "e", "s", "s", "a", "g", "e", "s", ">">>
MSG_TEL == <<"<", "m", "e", "s", "s", "a", "g", "e", ">", "<", "t", "e", "l", ">">>
TEL_DATE == <<"<", "/", "t", "e", "l", ">", "<", "d", "a", "t", "e", ">">>
DATE_BODY == <<"<", "/", "d", "a", "t", "e", ">", "<", "b", "o", "d", "y", ">">>
BODY_MSG == <<"<", "/", "b", "o", "d", "y", ">", "<", "/", "m", "e", "s", "s", "a", "g", "e", ">">>
CSV_HEADER == <<"t", "e", "l", "n", "o", ",", "d", "a", "t", "e", ",", "b", "o", "d", "y", CR, LF>>
CRLF == <<CR, LF>>

\* msg['date'].strftime(self.DATETIME_FORMAT): the exception it raises, "" when none
date_error(msg) ==
    IF ~HasDate(msg) THEN "KeyError"
    ELSE IF ~strftime(msg.date).ok THEN "ValueError"
    ELSE ""

\* tmpl % (telno, date, body) of XMLWriter
xmlstr(msg) ==
    MSG_TEL \o msg.telno \o TEL_DATE \o strftime(msg.date).s \o DATE_BODY
      \o msg.body \o BODY_MSG

\* a field as csv.writer writes it: quoted, its quotes doubled, when it holds
\* the delimiter, a quote or a character of the line terminator
csvfield(f) ==
    IF \E k \in 1..Len(f) : f[k] \in {",", QUOT, CR, LF}
    THEN <<QUOT>> \o replace(f, QUOT, <<QUOT, QUOT>>) \o <<QUOT>>
    ELSE f

csvrow(msg) ==
    csvfield(msg.telno) \o <<",">> \o csvfield(strftime(msg.date).s) \o <<",">>
      \o csvfield(msg.body) \o CRLF

\* tmpl % (telno, date, body) of TextWriter
txtstr(msg) ==
    msg.telno \o <<" ", "-", " ">> \o strftime(msg.date).s \o <<LF>> \o msg.body
      \o <<LF, LF>>

\* what one turn of the loop of write() writes
entry(fmt, msg) ==
    CASE fmt = "xml" -> xmlstr(msg)
      [] fmt = "csv" -> csvrow(msg)
      [] fmt = "txt" -> txtstr(msg)

\* TextWriter alone skips a message whose telno is empty, before it reads the date
skipped(fmt, msg) == fmt = "txt" /\ msg.telno = <<>>

\* the loop `for msg in self.messages`, from the characters written so far
RECURSIVE write_loop(_, _, _)
write_loop(fmt, ms, written) ==
    IF ms = <<>> THEN [out |-> written, exc |-> ""]
    ELSE IF skipped(fmt, Head(ms)) THEN write_loop(fmt, Tail(ms), written)
    ELSE IF date_error(Head(ms)) # "" THEN [out |-> written, exc |-> date_error(Head(ms))]
    ELSE write_loop(fmt, Tail(ms), written \o entry(fmt, Head(ms)))

\* XMLWriter.write, CSVWriter.write, TextWriter.write
write(fmt, ms) ==
    LET head == CASE fmt = "xml" -> XML_OPEN [] fmt = "csv" -> CSV_HEADER [] fmt = "txt" -> <<>>
        loop == write_loop(fmt, ms, head)
    IN  IF loop.exc = "" /\ fmt = "xml" THEN [out |-> loop.out \o XML_CLOSE, exc |-> ""]
        ELSE loop

---------------------------------------------------------------------------
(* The files main is run on *)

\* the greatest number of positional arguments
MaxArgs == 2

Formats == {"xml", "csv", "txt"}

\* the paths main can be given: files, a directory, a path that does not
\* exist, a path that is neither a file nor a directory, a file that cannot
\* be opened
ArgPaths ==
    { "A.vmg", "B.vmg", "sms", "nodate.vmg", "baddate.vmg", "old.vmg", "empty.vmg",
      "missing.vmg", "fifo", "locked.vmg" }

\* os.stat(spec): "ENOENT" when it raises, else the kind of st.st_mode
stat(path) ==
    CASE path = "sms" -> "dir"
      [] path = "fifo" -> "fifo"
      [] path = "missing.vmg" -> "ENOENT"
      [] OTHER -> "reg"

S_ISDIR(mode) == mode = "dir"
S_ISREG(mode) == mode = "reg"

\* glob.glob(spec + '/*.vmg')
glob(path) == IF path = "sms" THEN <<"sms/1.vmg", "sms/2.vmg", "sms/3.vmg">> ELSE <<>>

\* whether open(filename, 'r') succeeds
readable(path) == path # "locked.vmg"

\* open(filename, 'r').read()
FileText(path) ==
    CASE path = "A.vmg" ->
           <<"T", "E", "L", ":", "+", "1", "0", "0", "0", LF, "X", "-", "N", "O", "K", "-", "D", "T", ":", "2", "0", "1", "0", "0", "1", "0", "1", "T", "0", "0", "0", "0", "0", "0", "Z", LF, "D", "a", "t", "e", ":", "1", ".", "1", LF, "h", "e", "l", "l", "o", LF, "E", "N", "D", ":", "V", "B", "O", "D", "Y", LF>>
      [] path = "B.vmg" ->
           <<"T", "E", "L", ":", "+", "2", "0", "0", "0", LF, "X", "-", "N", "O", "K", "-", "D", "T", ":", "2", "0", "0", "9", "0", "1", "0", "1", "T", "0", "0", "0", "0", "0", "0", "Z", LF, "D", "a", "t", "e", ":", "1", ".", "1", LF, "w", "o", "r", "l", "d", LF, "E", "N", "D", ":", "V", "B", "O", "D", "Y", LF>>
      [] path = "sms/1.vmg" ->
           <<"T", "E", "L", ":", "+", "2", "1", "0", "0", LF, "X", "-", "N", "O", "K", "-", "D", "T", ":", "2", "0", "0", "9", "0", "1", "0", "1", "T", "0", "0", "0", "0", "0", "0", "Z", LF, "D", "a", "t", "e", ":", "1", ".", "1", LF, "a", ",", QUOT, "b", QUOT, LF, "E", "N", "D", ":", "V", "B", "O", "D", "Y", LF>>
      [] path = "sms/2.vmg" ->
           <<"T", "E", "L", ":", LF, "X", "-", "N", "O", "K", "-", "D", "T", ":", "2", "0", "0", "9", "0", "1", "0", "1", "T", "0", "0", "0", "0", "0", "0", "Z", LF, "D", "a", "t", "e", ":", "1", ".", "1", LF, "n", "o", " ", "s", "e", "n", "d", "e", "r", LF, "E", "N", "D", ":", "V", "B", "O", "D", "Y", LF>>
      [] path = "sms/3.vmg" ->
           <<"T", "E", "L", ":", "+", "2", "3", "0", "0", LF, "X", "-", "N", "O", "K", "-", "D", "T", ":", "2", "0", "1", "1", "0", "1", "0", "1", "T", "0", "0", "0", "0", "0", "0", "Z", LF, "D", "a", "t", "e", ":", "1", ".", "1", LF, LF, "E", "N", "D", ":", "V", "B", "O", "D", "Y", LF>>
      [] path = "nodate.vmg" ->
           <<"T", "E", "L", ":", "+", "4", "0", "0", "0", LF, "D", "a", "t", "e", ":", "1", ".", "1", LF, "l", "a", "t", "e", LF, "E", "N", "D", ":", "V", "B", "O", "D", "Y", LF>>
      [] path = "baddate.vmg" ->
           <<"T", "E", "L", ":", "+", "5", "0", "0", "0", LF, "X", "-", "N", "O", "K", "-", "D", "T", ":", "2", "0", "0", "8", "1", "3", "2", "6", "T", "1", "2", "4", "2", "3", "2", "Z", LF>>
      [] path = "old.vmg" ->
           <<"T", "E", "L", ":", "+", "6", "0", "0", "0", LF, "X", "-", "N", "O", "K", "-", "D", "T", ":", "1", "8", "9", "9", "1", "2", "3", "1", "T", "2", "3", "5", "9", "5", "9", "Z", LF, "D", "a", "t", "e", ":", "1", ".", "1", LF, "o", "l", "d", LF, "E", "N", "D", ":", "V", "B", "O", "D", "Y", LF>>
      [] path = "empty.vmg" ->
           <<>>
      [] OTHER -> <<>>

---------------------------------------------------------------------------
(* main *)

\* a slip: the handler of os.error without its return, main going on to write()
handler_falls_through == "write"

\* the position after `except os.error`: the handler reports and returns
handler_next == "aborted"

Init ==
    /\ pc = "start"
    /\ args \in UNION {[1..n -> ArgPaths] : n \in 0..MaxArgs}
    /\ format \in Formats \cup {""}
    /\ tofile \in BOOLEAN
    /\ xmldata = <<>> /\ escaped = <<>>
    /\ text = <<>> /\ message = <<>> /\ groups = NoGroups /\ data = NoData
    /\ filenames = <<>> /\ i = 0 /\ messages = <<>> /\ out = <<>> /\ exc = NoExc

\* parser.parse_args() and the check of the invocation
ParseArgs ==
    /\ pc = "start"
    /\ pc' = IF Len(args) = 0 \/ format = "" THEN "usage" ELSE "open"
    /\ UNCHANGED <<xmldata, escaped, text, message, groups, data, args, format,
                   tofile, filenames, i, messages, out, exc>>

\* outfile = open(options.filename, 'w') or sys.stdout; opening a file can fail,
\* outside the try
OpenOutfile ==
    /\ pc = "open"
    /\ \E opened \in {TRUE} \cup (IF tofile THEN {FALSE} ELSE {}) :
          IF opened
          THEN pc' = "stat" /\ i' = 1 /\ exc' = exc
          ELSE pc' = "crashed" /\ i' = i /\ exc' = <<"IOError", "open">>
    /\ UNCHANGED <<xmldata, escaped, text, message, groups, data, args, format,
                   tofile, filenames, messages, out>>

\* one turn of `for spec in args`
StatArg ==
    /\ pc = "stat" /\ i <= Len(args)
    /\ LET mode == stat(args[i])
       IN  IF mode = "ENOENT"
           THEN /\ exc' = <<"OSError", "stat">>
                /\ pc' = handler_next
                /\ UNCHANGED <<filenames, i>>
           ELSE IF S_ISDIR(mode)
           THEN /\ filenames' = filenames \o glob(args[i])
                /\ i' = i + 1
                /\ UNCHANGED <<pc, exc>>
           ELSE IF S_ISREG(mode)
           THEN /\ filenames' = Append(filenames, args[i])
                /\ i' = i + 1
                /\ UNCHANGED <<pc, exc>>
           ELSE /\ exc' = <<"OSError", "raise">>
                /\ pc' = handler_next
                /\ UNCHANGED <<filenames, i>>
    /\ UNCHANGED <<xmldata, escaped, text, message, groups, data, args, format,
                   tofile, messages, out>>

\* writer.process(filenames) is entered: self.messages = []
EnterProcess ==
    /\ pc = "stat" /\ i > Len(args)
    /\ messages' = <<>>
    /\ i' = 1
    /\ pc' = "read"
    /\ UNCHANGED <<xmldata, escaped, text, message, groups, data, args, format,
                   tofile, filenames, out, exc>>

\* reader.read(f): an IOError is no os.error in Python 2 and leaves main
ReadFile ==
    /\ pc = "read" /\ i <= Len(filenames)
    /\ IF readable(filenames[i])
       THEN /\ text' = FileText(filenames[i])
            /\ message' = read(FileText(filenames[i]))
            /\ pc' = "process"
            /\ exc' = exc
       ELSE /\ pc' = "crashed"
            /\ exc' = <<"IOError", "read">>
            /\ UNCHANGED <<text, message>>
    /\ UNCHANGED <<xmldata, escaped, groups, data, args, format, tofile,
                   filenames, i, messages, out>>

\* self.messages.append(reader.process())
ProcessFile ==
    /\ pc = "process"
    /\ groups' = search(message)
    /\ data' = record(groups'.tel, groups'.date, groups'.body)
    /\ messages' = Append(messages, data')
    /\ i' = i + 1
    /\ pc' = "read"
    /\ UNCHANGED <<xmldata, escaped, text, message, args, format, tofile,
                   filenames, out, exc>>

\* self.messages.sort(datecmp): a KeyError of datecmp is no os.error and leaves
\* main, the list in an order that nothing reads any more
Sort ==
    /\ pc = "read" /\ i > Len(filenames)
    /\ IF sort_raises(messages)
       THEN pc' = "crashed" /\ exc' = <<"KeyError", "sort">> /\ messages' = messages
       ELSE pc' = "write" /\ exc' = exc /\ messages' = sort(messages)
    /\ UNCHANGED <<xmldata, escaped, text, message, groups, data, args, format,
                   tofile, filenames, i, out>>

\* writer.write()
Write ==
    /\ pc = "write"
    /\ LET w == write(format, messages)
       IN  /\ out' = out \o w.out
           /\ IF w.exc = ""
              THEN pc' = "written" /\ exc' = exc
              ELSE pc' = "crashed" /\ exc' = <<w.exc, "write">>
    /\ UNCHANGED <<xmldata, escaped, text, message, groups, data, args, format,
                   tofile, filenames, i, messages>>

\* if options.filename: outfile.close()
Close ==
    /\ pc = "written"
    /\ pc' = "done"
    /\ UNCHANGED <<xmldata, escaped, text, message, groups, data, args, format,
                   tofile, filenames, i, messages, out, exc>>

Next ==
    \/ ParseArgs \/ OpenOutfile \/ StatArg \/ EnterProcess \/ ReadFile
    \/ ProcessFile \/ Sort \/ Write \/ Close

Spec == Init /\ [][Next]_vars

---------------------------------------------------------------------------
(* Claims about Writer.process, the writers and main, checked under Spec *)

\* the files the arguments stand for, in the order of the arguments
RECURSIVE Expand(_)
Expand(as) ==
    IF as = <<>> THEN <<>>
    ELSE (IF stat(Head(as)) = "dir" THEN glob(Head(as)) ELSE <<Head(as)>>)
           \o Expand(Tail(as))

\* an argument that does not exist or is neither a file nor a directory, or a
\* file that cannot be read
PathFails ==
    \/ \E k \in 1..Len(args) : stat(args[k]) \notin {"reg", "dir"}
    \/ \E k \in 1..Len(Expand(args)) : ~readable(Expand(args)[k])

\* write() has been called
WriteCalled == pc \in {"written", "done"} \/ (pc = "crashed" /\ exc[2] = "write")

\* C2 as stated: a field-level defect never aborts the batch: on readable input
\* files of any content, Writer.process and then write() of any of the three
\* writers run to completion without raising, for one file as for several.
C2_FieldDefectNeverRaises ==
    ~PathFails => exc[2] \notin {"sort", "write"}

\* the records of the files, in the order of the files
Records == [k \in 1..Len(filenames) |-> process(NoNul(FileText(filenames[k])))]

DatesOf(ms) == {ms[k].date : k \in {j \in 1..Len(ms) : HasDate(ms[j])}}

WithDate(ms, d) == SelectSeq(ms, LAMBDA m : HasDate(m) /\ m.date = d)

\* C3: after Writer.process(filenames), self.messages holds exactly one record
\* per file, the records of the files, sorted by date ascending, records of
\* equal date in the order of their files.
C3_StableSortByDate ==
    pc = "write" =>
        /\ Len(messages) = Len(filenames)
        /\ \A k \in 1..(Len(messages) - 1) :
               ~DateLess(messages[k + 1].date, messages[k].date)
        /\ Len(messages) = 1 => messages = Records
        /\ \A d \in DatesOf(Records) \cup DatesOf(messages) :
               WithDate(messages, d) = WithDate(Records, d)

\* the files have dates [T2, T1, T1, T3], the two T1 records differ
C3_Witness ==
    /\ pc = "write" /\ Len(filenames) = 4
    /\ DateLess(Records[2].date, Records[1].date)
    /\ Records[2].date = Records[3].date /\ Records[2] # Records[3]
    /\ DateLess(Records[1].date, Records[4].date)
    /\ messages = <<Records[2], Records[3], Records[1], Records[4]>>

RECURSIVE Entries(_, _)
Entries(fmt, ms) ==
    IF ms = <<>> THEN <<>> ELSE entry(fmt, Head(ms)) \o Entries(fmt, Tail(ms))

Dated(ms) == \A k \in 1..Len(ms) : date_error(ms[k]) = ""

WithTelno(ms) == SelectSeq(ms, LAMBDA m : m.telno # <<>>)

\* C6 as stated: TextWriter.write emits, in sorted order, exactly one block
\* for every record whose telno is not empty and nothing for the others;
\* XMLWriter and CSVWriter emit one entry for every record.
C6_TextSkipsEmptyTelnoOnly ==
    WriteCalled =>
        CASE format = "txt" ->
               Dated(WithTelno(messages)) /\ out = Entries("txt", WithTelno(messages))
          [] format = "xml" ->
               Dated(messages) /\ out = XML_OPEN \o Entries("xml", messages) \o XML_CLOSE
          [] format = "csv" ->
               Dated(messages) /\ out = CSV_HEADER \o Entries("csv", messages)

===========================================================================
